---- MODULE Spec2Model ----
(***************************************************************************)
(* Sale lifecycle and inventory consistency of the GLb management backend, *)
(* with its anomaly scan (sale_flags), its invoice payments, and its       *)
(* warehouse order, client, employee and report routes.                    *)
(*                                                                         *)
(* Every `await query(...)` of a route handler is one auto-committed SQL   *)
(* statement (no handler of the sales routes opens a transaction), so a    *)
(* handler is a sequence of atomic steps: one step per statement, together *)
(* with the JavaScript that runs between that statement and the next       *)
(* await.  Concurrent requests interleave at statement granularity.  The   *)
(* employee routes run their writes in a transaction: the writes are one   *)
(* step, taken at the commit.                                              *)
(*                                                                         *)
(* Money and stock are integers; a reference 'SALE-<year>-<digits>' is     *)
(* represented by its <digits> part (a sequence of decimal digits), all    *)
(* requests of a behaviour falling in one calendar year.                   *)
(***************************************************************************)
EXTENDS Integers, Sequences, FiniteSets, TLC

(* ------------------------------ bounds -------------------------------- *)
\* requests started in one behaviour
MaxReq == 4
\* line items in one request body
MaxItems == 2
\* rows of the sales table
MaxSales == 2
\* articles.stock is kept within -StockCap .. StockCap by the guards
StockCap == 8

(* --------------------------- value domains ---------------------------- *)
\* SQL NULL in an INTEGER column (articles.stock, sales.validated_by)
NULL == 0 - 1000
\* a field missing from a JSON request body (JavaScript undefined)
ABSENT == 0 - 2000
\* the string 'N/A' a client sends as stock of an untracked article
NA == 0 - 3000

\* rows of the articles table
Articles == {"a1", "a2"}
\* article ids a request body may name; "zz" is in no row of articles
ItemArticles == Articles \cup {"zz"}
\* authenticated sessions; req.user.userId of session u is u
Users == {1, 2}
\* quantities a request body may carry
Quantities == {3}
\* unit prices a body of POST /api/sales-transactions may carry
UnitPrices == {2}
\* stock amounts a body of PATCH /:id/stock or PUT /:id may carry
StockInputs == {0 - 1, 2}
\* prices a body of PUT /:id may carry
PriceInputs == {1}
\* the values of the CHECK constraint on sales.status
Statuses == {"Draft", "Validated", "Completed", "Cancelled"}
\* the value of CURRENT_TIMESTAMP and NOW() while requests are served, in
\* minutes since midnight (one instant stands for all)
CURRENT_TIMESTAMP == 1

VARIABLES
    stock,       \* articles.stock      : article_id -> integer or NULL
    price,       \* articles.price      : article_id -> integer
    is_active,   \* articles.is_active  : article_id -> BOOLEAN
    sales,       \* the sales table, sale_id = position of the row
    sale_items,  \* the sale_items table in insertion order
    pc,          \* per session: the statement its request in flight is at
    rq,          \* per session: the local variables of the request in flight
    result,      \* per session: the response of its last finished request
    nreq,        \* requests started so far
    sale_flags,  \* the sale_flags table in insertion order
    scan_reply,  \* per session: its last check-suspicious request and reply
    invoices,    \* the invoices table, invoice_id = position of the row
    users,       \* the users table, user_id = position (NULL: a deleted row)
    employees,   \* the employees table: a set of rows
    orders,      \* the warehouse_orders table: a set of rows
    clients,     \* the clients table, client_id = position of the row
    reports,     \* the reports table, report_id = position of the row
    data,        \* per session: the report ids in the data of its last response
    token        \* per session: req.user, the payload of its JWT

vars == <<stock, price, is_active, sales, sale_items, pc, rq, result, nreq,
          sale_flags, scan_reply, invoices, users, employees, orders, clients,
          reports, data, token>>

\* the tables of the sales, scan and invoice handlers
salesVars == <<stock, price, is_active, sales, sale_items, sale_flags, scan_reply, invoices>>

\* the tables of the personnel, warehouse, client and report handlers
staffVars == <<users, employees, orders, clients, reports, data, token>>

(* ------------------------- pure SQL / JS helpers ---------------------- *)
RECURSIVE SumSeq(_)
\* SUM over a sequence of integers (COALESCE(SUM(..), 0), Array.reduce)
SumSeq(s) == IF s = <<>> THEN 0 ELSE Head(s) + SumSeq(Tail(s))

RECURSIVE ParseInt(_)
\* CAST(<digits> AS INTEGER)
ParseInt(ds) ==
    IF ds = <<>> THEN 0
    ELSE 10 * ParseInt(SubSeq(ds, 1, Len(ds) - 1)) + ds[Len(ds)]

RECURSIVE ToText(_)
\* n::TEXT for n >= 0
ToText(n) == IF n < 10 THEN <<n>> ELSE ToText(n \div 10) \o <<n % 10>>

RECURSIVE Zeros(_)
Zeros(k) == IF k <= 0 THEN <<>> ELSE <<0>> \o Zeros(k - 1)

\* width of the zero padding of a reference
PadWidth == 3

\* LPAD(ds, w, '0'): pads on the left, and truncates on the right when
\* ds is longer than w
LPad(ds, w) ==
    IF Len(ds) >= w THEN SubSeq(ds, 1, w) ELSE Zeros(w - Len(ds)) \o ds

\* MAX of a non-empty set of integers
MaxOf(S) == CHOOSE m \in S : \A x \in S : x <= m

\* generate_sale_reference(): COALESCE(MAX(CAST(SUBSTRING(reference FROM 11)
\* AS INTEGER)), 0) + 1 over the year's sales, zero-padded to three
generate_sale_reference(tbl) ==
    LET nums == {ParseInt(tbl[i].reference) : i \in 1..Len(tbl)}
        next_num == (IF nums = {} THEN 0 ELSE MaxOf(nums)) + 1
    IN LPad(ToText(next_num), PadWidth)

\* a sales table whose reference column lost its UNIQUE constraint
ReferenceTaken_NoConstraint(tbl, ref) == FALSE

\* the UNIQUE constraint on sales.reference rejects the insert of ref
ReferenceTaken(tbl, ref) == \E i \in 1..Len(tbl) : tbl[i].reference = ref

\* handleDatabaseError: the HTTP response for a database or thrown error
handleDatabaseError(code) ==
    CASE code = "23505" -> "409 already exists"
      [] code = "23503" -> "400 referenced record does not exist"
      [] OTHER -> "500 " \o code

\* SELECT COALESCE(SUM(total_price), 0) FROM sale_items WHERE sale_id = sid
ItemsTotal(items, sid) ==
    SumSeq([i \in 1..Len(items) |->
              IF items[i].sale_id = sid THEN items[i].total_price ELSE 0])

\* update_sale_total(): the AFTER INSERT trigger on sale_items recomputes
\* the total of the sale the new row belongs to
update_sale_total(tbl, items, sid) ==
    [i \in 1..Len(tbl) |->
        IF i = sid THEN [tbl[i] EXCEPT !.total_amount = ItemsTotal(items, sid),
                                       !.updated_at = CURRENT_TIMESTAMP]
        ELSE tbl[i]]

\* the column constraints of sale_items and its foreign key to articles:
\* the SQLSTATE an INSERT of row r fails with, or "ok"
SaleItemInsertError(r) ==
    IF r.article_id \notin Articles THEN "23503"
    ELSE IF r.quantity <= 0 \/ r.unit_price < 0 \/ r.total_price < 0
            \/ r.total_price # r.quantity * r.unit_price THEN "23514"
    ELSE "ok"

(* --------------------------- request bodies --------------------------- *)
RECURSIVE SeqsUpTo(_, _)
\* the sequences over S of length 0..n
SeqsUpTo(S, n) ==
    IF n = 0 THEN {<<>>}
    ELSE LET shorter == SeqsUpTo(S, n - 1)
         IN shorter \cup {Append(q, x) : q \in {t \in shorter : Len(t) = n - 1}, x \in S}

\* items of a body of POST /from-recommendations: {article_id, quantity}
RecItems == [article_id : ItemArticles, quantity : Quantities]
\* clientOk: clientId, client_name, client_phone and client_type are all given
RecBodies == [clientOk : BOOLEAN, items : SeqsUpTo(RecItems, MaxItems)]

\* items of a body of POST /api/sales-transactions; the handler never reads
\* the articles table, so one existing and one unknown article id are drawn
CreateItems == [article_id : {"a1", "zz"}, quantity : Quantities, unit_price : UnitPrices]
\* clientOk: client_name, client_phone and client_type are all given
CreateBodies ==
    [clientOk : BOOLEAN, items : SeqsUpTo(CreateItems, MaxItems), status : Statuses]

\* the fields price and stock of a body of PUT /api/articles/:id
PutBodies == [price : PriceInputs \cup {ABSENT}, stock : StockInputs \cup {NA, ABSENT}]

Operations == {"set", "add", "subtract", "other"}

\* the local variables of a handler with no request in flight
NoReq ==
    [items |-> <<>>, reference |-> <<>>, normalized |-> <<>>, totalAmount |-> 0,
     status |-> "Draft", idx |-> 0, sale_id |-> 0,
     advisorId |-> 0, window |-> <<>>, sum |-> 0, count |-> 0, inserted |-> 0,
     invoice_id |-> 0, newPaidAmount |-> 0, newStatus |-> "undefined",
     updatePaidAmount |-> 0, updateStatus |-> "undefined", paidDate |-> NULL,
     order_id |-> 0, employeeId |-> 0, phone |-> 0,
     username |-> 0, email |-> 0, userId |-> 0, report_id |-> 0, isRead |-> "undefined"]

\* no check-suspicious request of the session has been answered yet
NoReply == [advisorId |-> 0, new_flags |-> NULL]

(* ------------------------------- state -------------------------------- *)
\* the values of the CHECK constraint on users.role
Roles == {"Director", "Controller", "Advisor", "Agent"}

\* the users of the two sessions: user 1 is a Director, user 2 a Controller
InitUsers ==
    [u \in Users |-> [username |-> u, email |-> u,
                      role |-> IF u = 1 THEN "Director" ELSE "Controller"]]

\* the tokens the two sessions were given at login
InitToken == [u \in Users |-> [userId |-> u, role |-> InitUsers[u].role]]

\* the numbers of the order ids PO-<year>-001, PO-<year>-002, ... (padStart
\* never truncates, and every order of the model is of the current year)
OrderIds == 1..MaxReq

\* the place of an order_id that no row of warehouse_orders has
NoOrder == [status |-> "absent", signed_by |-> NULL, signed_at |-> NULL]

\* a warehouse_orders table with no rows
NoOrders == [id \in OrderIds |-> NoOrder]

\* their employee records EMP0001 and EMP0002 (employee_id is represented
\* by its number: padStart never truncates)
InitEmployees == {[employee_id |-> u, user_id |-> u, email |-> u] : u \in Users}

\* the stock of the tracked articles before the first request
InitStock == [a \in Articles |-> IF a = "a1" THEN 5 ELSE 1]

Init ==
    /\ stock = InitStock
    /\ price = [a \in Articles |-> 2]
    /\ is_active = [a \in Articles |-> TRUE]
    /\ sales = <<>>
    /\ sale_items = <<>>
    /\ pc = [u \in Users |-> "idle"]
    /\ rq = [u \in Users |-> NoReq]
    /\ result = [u \in Users |-> "none"]
    /\ nreq = 0
    /\ sale_flags = <<>>
    /\ scan_reply = [u \in Users |-> NoReply]
    /\ invoices = <<>>
    /\ users = InitUsers
    /\ employees = InitEmployees
    /\ orders = NoOrders
    /\ clients = <<>>
    /\ reports = <<>>
    /\ data = [u \in Users |-> {}]
    /\ token = InitToken

\* sessions whose request in flight has still to insert its sales row
Creating == {u \in Users : pc[u] \in {"rec_load", "rec_deduct", "rec_sale", "cre_sale"}}

\* a session may send a request
CanStart(u) == pc[u] = "idle" /\ nreq < MaxReq

\* a session may send a request that inserts a sales row
CanCreate(u) == CanStart(u) /\ Len(sales) + Cardinality(Creating) < MaxSales

\* the request of session u goes on to the statement at `at` with locals r
Goto(u, at, r) ==
    /\ pc' = [pc EXCEPT ![u] = at]
    /\ rq' = [rq EXCEPT ![u] = r]
    /\ result' = [result EXCEPT ![u] = "none"]

\* res.status(..).json(..): the request of session u ends with response r
Respond(u, r) ==
    /\ pc' = [pc EXCEPT ![u] = "idle"]
    /\ rq' = [rq EXCEPT ![u] = NoReq]
    /\ result' = [result EXCEPT ![u] = r]

(* ---------------- POST /api/sales-transactions/from-recommendations ---- *)
\* the request arrives: the body checks, then SELECT generate_sale_reference()
RecStart(u, body) ==
    /\ CanStart(u)
    /\ (body.clientOk /\ body.items # <<>>) => CanCreate(u)
    /\ nreq' = nreq + 1
    /\ IF ~body.clientOk THEN Respond(u, "400 client fields are required")
       ELSE IF body.items = <<>> THEN Respond(u, "400 items is required")
       ELSE Goto(u, "rec_load",
                 [NoReq EXCEPT !.items = body.items,
                               !.reference = generate_sale_reference(sales)])
    /\ UNCHANGED <<stock, price, is_active, sales, sale_items, sale_flags, scan_reply, invoices>>
    /\ UNCHANGED staffVars

\* items.map(...): each item priced and stamped with the stock of the row
\* read by SELECT article_id, name, price, stock FROM articles
Normalize(items) ==
    [i \in 1..Len(items) |->
        [article_id |-> items[i].article_id,
         unit_price |-> price[items[i].article_id],
         quantity |-> items[i].quantity,
         total_price |-> price[items[i].article_id] * items[i].quantity,
         stock |-> stock[items[i].article_id]]]

\* Number(it.stock) || 0
CurrentStock(s) == s

\* the stock check of the deduction loop: the item cannot be served
InsufficientStock(it) == CurrentStock(it.stock) < it.quantity

\* the first item at or after position k whose stock snapshot is not NULL
\* (0 when there is none): the loop skips the items of untracked articles
NextTracked(norm, k) ==
    LET S == {j \in k..Len(norm) : norm[j].stock # NULL}
    IN IF S = {} THEN 0 ELSE CHOOSE j \in S : \A i \in S : j <= i

\* the deduction loop from item k up to its next await or return
DeductLoop(u, r, k) ==
    LET j == NextTracked(r.normalized, k)
    IN IF j = 0 THEN Goto(u, "rec_sale", [r EXCEPT !.idx = 0])
       ELSE IF InsufficientStock(r.normalized[j])
            THEN Respond(u, "400 insufficient stock")
       ELSE Goto(u, "rec_deduct", [r EXCEPT !.idx = j])

\* SELECT ... FROM articles WHERE article_id = ANY($1), the normalisation of
\* the items and the deduction loop up to its first UPDATE
RecLoad(u) ==
    /\ pc[u] = "rec_load"
    /\ LET items == rq[u].items
       IN IF \E i \in 1..Len(items) : items[i].article_id \notin Articles
          THEN Respond(u, handleDatabaseError("Unknown article_id"))
          ELSE IF \E i \in 1..Len(items) : items[i].quantity <= 0
          THEN Respond(u, handleDatabaseError("Invalid quantity"))
          ELSE LET norm == Normalize(items)
                   total == SumSeq([i \in 1..Len(norm) |-> norm[i].total_price])
               IN DeductLoop(u, [rq[u] EXCEPT !.normalized = norm,
                                              !.totalAmount = total], 1)
    /\ UNCHANGED <<stock, price, is_active, sales, sale_items, nreq, sale_flags, scan_reply, invoices>>
    /\ UNCHANGED staffVars

\* UPDATE articles SET stock = stock - $1 WHERE article_id = $2
DeductStock(st, a, q) == [st EXCEPT ![a] = IF @ = NULL THEN NULL ELSE @ - q]

\* the UPDATE of the item the loop is at, then the loop up to its next await
RecDeduct(u) ==
    /\ pc[u] = "rec_deduct"
    /\ LET it == rq[u].normalized[rq[u].idx]
       IN /\ stock[it.article_id] # NULL => stock[it.article_id] - it.quantity >= 0 - StockCap
          /\ stock' = DeductStock(stock, it.article_id, it.quantity)
    /\ DeductLoop(u, rq[u], rq[u].idx + 1)
    /\ UNCHANGED <<price, is_active, sales, sale_items, nreq, sale_flags, scan_reply, invoices>>
    /\ UNCHANGED staffVars

\* a new row of sales: the columns the handlers write or read
SaleRow(ref, total, st, by) ==
    [reference |-> ref, total_amount |-> total, status |-> st,
     validated_at |-> NULL, validated_by |-> NULL, completed_at |-> NULL,
     created_by |-> by, created_at |-> CURRENT_TIMESTAMP,
     updated_at |-> CURRENT_TIMESTAMP]

\* the status POST /from-recommendations inserts its sale with
RecStatus == "Draft"

\* INSERT INTO sales (...) VALUES (..., 'Draft', ...) RETURNING *
RecInsertSale(u) ==
    /\ pc[u] = "rec_sale"
    /\ IF ReferenceTaken(sales, rq[u].reference)
       THEN /\ Respond(u, handleDatabaseError("23505"))
            /\ UNCHANGED sales
       ELSE /\ sales' = Append(sales, SaleRow(rq[u].reference, rq[u].totalAmount, RecStatus, u))
            /\ Goto(u, "rec_items", [rq[u] EXCEPT !.idx = 1, !.sale_id = Len(sales) + 1])
    /\ UNCHANGED <<stock, price, is_active, sale_items, nreq, sale_flags, scan_reply, invoices>>
    /\ UNCHANGED staffVars

\* INSERT INTO sale_items of the item the second loop is at; the trigger
\* trg_update_sale_total_on_item_change fires with it
RecInsertItem(u) ==
    /\ pc[u] = "rec_items"
    /\ LET it == rq[u].normalized[rq[u].idx]
           row == [sale_id |-> rq[u].sale_id, article_id |-> it.article_id,
                   quantity |-> it.quantity, unit_price |-> it.unit_price,
                   total_price |-> it.total_price]
           err == SaleItemInsertError(row)
       IN IF err # "ok"
          THEN /\ Respond(u, handleDatabaseError(err))
               /\ UNCHANGED <<sales, sale_items>>
          ELSE /\ sale_items' = Append(sale_items, row)
               /\ sales' = update_sale_total(sales, sale_items', rq[u].sale_id)
               /\ IF rq[u].idx < Len(rq[u].normalized)
                  THEN Goto(u, "rec_items", [rq[u] EXCEPT !.idx = @ + 1])
                  ELSE Respond(u, "201 created")
    /\ UNCHANGED <<stock, price, is_active, nreq, sale_flags, scan_reply, invoices>>
    /\ UNCHANGED staffVars

(* ----------------------- POST /api/sales-transactions ------------------ *)
\* the request arrives: the body check, then SELECT generate_sale_reference()
CreateStart(u, body) ==
    /\ CanStart(u)
    /\ body.clientOk => CanCreate(u)
    /\ nreq' = nreq + 1
    /\ IF ~body.clientOk THEN Respond(u, "400 client fields are required")
       ELSE Goto(u, "cre_sale",
                 [NoReq EXCEPT !.items = body.items, !.status = body.status,
                               !.reference = generate_sale_reference(sales)])
    /\ UNCHANGED <<stock, price, is_active, sales, sale_items, sale_flags, scan_reply, invoices>>
    /\ UNCHANGED staffVars

\* items.reduce((sum, item) => sum + item.quantity * item.unit_price, 0)
BodyTotal(items) ==
    SumSeq([i \in 1..Len(items) |-> items[i].quantity * items[i].unit_price])

\* the status POST /api/sales-transactions inserts its sale with:
\* const { ..., status = 'Draft' } = req.body
CreateStatus(bodyStatus) == bodyStatus

\* INSERT INTO sales (...) VALUES (..., $8, $9, ...) RETURNING *
CreateInsertSale(u) ==
    /\ pc[u] = "cre_sale"
    /\ IF ReferenceTaken(sales, rq[u].reference)
       THEN /\ Respond(u, handleDatabaseError("23505"))
            /\ UNCHANGED sales
       ELSE /\ sales' = Append(sales, SaleRow(rq[u].reference, BodyTotal(rq[u].items),
                                              CreateStatus(rq[u].status), u))
            /\ IF rq[u].items # <<>>
               THEN Goto(u, "cre_items", [rq[u] EXCEPT !.idx = 1, !.sale_id = Len(sales) + 1])
               ELSE Respond(u, "201 created")
    /\ UNCHANGED <<stock, price, is_active, sale_items, nreq, sale_flags, scan_reply, invoices>>
    /\ UNCHANGED staffVars

\* INSERT INTO sale_items of the body item the loop is at; the trigger
\* trg_update_sale_total_on_item_change fires with it
CreateInsertItem(u) ==
    /\ pc[u] = "cre_items"
    /\ LET it == rq[u].items[rq[u].idx]
           row == [sale_id |-> rq[u].sale_id, article_id |-> it.article_id,
                   quantity |-> it.quantity, unit_price |-> it.unit_price,
                   total_price |-> it.quantity * it.unit_price]
           err == SaleItemInsertError(row)
       IN IF err # "ok"
          THEN /\ Respond(u, handleDatabaseError(err))
               /\ UNCHANGED <<sales, sale_items>>
          ELSE /\ sale_items' = Append(sale_items, row)
               /\ sales' = update_sale_total(sales, sale_items', rq[u].sale_id)
               /\ IF rq[u].idx < Len(rq[u].items)
                  THEN Goto(u, "cre_items", [rq[u] EXCEPT !.idx = @ + 1])
                  ELSE Respond(u, "201 created")
    /\ UNCHANGED <<stock, price, is_active, nreq, sale_flags, scan_reply, invoices>>
    /\ UNCHANGED staffVars

(* ------------- PATCH /api/sales-transactions/:id/validate, /complete --- *)
\* sale ids a request path may name
SaleIds == 1..MaxSales

\* a status check that also lets a Validated sale through
NotDraft_AllowsValidated(st) == st \notin {"Draft", "Validated"}

\* checkResult.rows[0].status !== 'Draft'
NotDraft(st) == st # "Draft"

\* the request arrives: SELECT * FROM sales WHERE sale_id = $1 and the checks
ValidateCheck(u, id) ==
    /\ CanStart(u)
    /\ nreq' = nreq + 1
    /\ IF id \notin 1..Len(sales) THEN Respond(u, "404 sale not found")
       ELSE IF NotDraft(sales[id].status)
            THEN Respond(u, "400 only draft sales can be validated")
       ELSE Goto(u, "val_update", [NoReq EXCEPT !.sale_id = id])
    /\ UNCHANGED <<stock, price, is_active, sales, sale_items, sale_flags, scan_reply, invoices>>
    /\ UNCHANGED staffVars

\* a validation that also resets the total of the sale
ValidateRow_ZeroTotal(row, by) ==
    [row EXCEPT !.status = "Validated", !.validated_at = CURRENT_TIMESTAMP,
                !.validated_by = by, !.updated_at = CURRENT_TIMESTAMP,
                !.total_amount = 0]

\* UPDATE sales SET status = 'Validated', validated_at = CURRENT_TIMESTAMP,
\* validated_by = $1 WHERE sale_id = $2
ValidateRow(row, by) ==
    [row EXCEPT !.status = "Validated", !.validated_at = CURRENT_TIMESTAMP,
                !.validated_by = by, !.updated_at = CURRENT_TIMESTAMP]

ValidateUpdate(u) ==
    /\ pc[u] = "val_update"
    /\ sales' = [sales EXCEPT ![rq[u].sale_id] = ValidateRow(@, u)]
    /\ Respond(u, "200 validated")
    /\ UNCHANGED <<stock, price, is_active, sale_items, nreq, sale_flags, scan_reply, invoices>>
    /\ UNCHANGED staffVars

\* the WHERE clause of the UPDATE of /complete: sale_id = $1 AND status = 'Validated'
CompleteMatches(tbl, id) == id \in 1..Len(tbl) /\ tbl[id].status = "Validated"

\* UPDATE sales SET status = 'Completed', completed_at = CURRENT_TIMESTAMP
\* WHERE sale_id = $1 AND status = 'Validated' RETURNING *
Complete(u, id) ==
    /\ CanStart(u)
    /\ nreq' = nreq + 1
    /\ IF CompleteMatches(sales, id)
       THEN /\ sales' = [sales EXCEPT ![id] = [@ EXCEPT !.status = "Completed",
                                                        !.completed_at = CURRENT_TIMESTAMP,
                                                        !.updated_at = CURRENT_TIMESTAMP]]
            /\ Respond(u, "200 completed")
       ELSE /\ UNCHANGED sales
            /\ Respond(u, "400 sale not found or not validated")
    /\ UNCHANGED <<stock, price, is_active, sale_items, sale_flags, scan_reply, invoices>>
    /\ UNCHANGED staffVars

(* ------------------------------ articles ------------------------------ *)
\* the new stock of PATCH /:id/stock for a valid operation
PatchedStock(old, operation, amount) ==
    LET base == IF old = NULL THEN 0 ELSE old
    IN CASE operation = "set" -> amount
         [] operation = "add" -> base + amount
         [] operation = "subtract" -> IF base - amount > 0 THEN base - amount ELSE 0

\* PATCH /api/articles/:id/stock with body {stock: amount, operation}
PatchStock(u, id, amount, operation) ==
    /\ CanStart(u)
    /\ nreq' = nreq + 1
    /\ IF amount = 0 \/ amount = ABSENT
       THEN /\ Respond(u, "400 stock quantity and operation are required")
            /\ UNCHANGED stock
       ELSE IF operation \notin {"set", "add", "subtract"}
       THEN /\ Respond(u, "400 invalid operation")
            /\ UNCHANGED stock
       ELSE IF id \notin Articles \/ ~is_active[id]
       THEN /\ Respond(u, "404 article not found")
            /\ UNCHANGED stock
       ELSE /\ PatchedStock(stock[id], operation, amount) \in (0 - StockCap)..StockCap
            /\ stock' = [stock EXCEPT ![id] = PatchedStock(@, operation, amount)]
            /\ Respond(u, "200 stock updated")
    /\ UNCHANGED <<price, is_active, sales, sale_items, sale_flags, scan_reply, invoices>>
    /\ UNCHANGED staffVars

\* params.push(stock === 'N/A' ? null : stock)
PutStock(s) == IF s = NA THEN NULL ELSE s

\* PUT /api/articles/:id with the body fields price and stock
PutArticle(u, id, body) ==
    /\ CanStart(u)
    /\ nreq' = nreq + 1
    /\ IF body.price = ABSENT /\ body.stock = ABSENT
       THEN /\ Respond(u, "400 no fields to update")
            /\ UNCHANGED <<stock, price>>
       ELSE IF id \notin Articles \/ ~is_active[id]
       THEN /\ Respond(u, "404 article not found")
            /\ UNCHANGED <<stock, price>>
       ELSE /\ price' = IF body.price = ABSENT THEN price
                        ELSE [price EXCEPT ![id] = body.price]
            /\ stock' = IF body.stock = ABSENT THEN stock
                        ELSE [stock EXCEPT ![id] = PutStock(body.stock)]
            /\ Respond(u, "200 article updated")
    /\ UNCHANGED <<is_active, sales, sale_items, sale_flags, scan_reply, invoices>>
    /\ UNCHANGED staffVars

(* ------------------- add_sale_item(sale, article, quantity) ------------ *)
\* a database session calls the SQL function add_sale_item; the call is one
\* statement, so the lookup, the INSERT and the UPDATE of the total happen
\* together and an error undoes all of them
add_sale_item(u, p_sale_id, p_article_id, p_quantity) ==
    /\ CanStart(u)
    /\ nreq' = nreq + 1
    /\ IF p_article_id \notin Articles \/ ~is_active[p_article_id]
       THEN /\ Respond(u, "raised: article not found or not active")
            /\ UNCHANGED <<sales, sale_items>>
       ELSE LET row == [sale_id |-> p_sale_id, article_id |-> p_article_id,
                        quantity |-> p_quantity, unit_price |-> price[p_article_id],
                        total_price |-> p_quantity * price[p_article_id]]
                err == IF p_sale_id \notin 1..Len(sales) THEN "23503"
                       ELSE SaleItemInsertError(row)
            IN IF err # "ok"
               THEN /\ Respond(u, "raised: " \o err)
                    /\ UNCHANGED <<sales, sale_items>>
               ELSE /\ sale_items' = Append(sale_items, row)
                    /\ sales' = update_sale_total(sales, sale_items', p_sale_id)
                    /\ Respond(u, "returned item_id")
    /\ UNCHANGED <<stock, price, is_active, sale_flags, scan_reply, invoices>>
    /\ UNCHANGED staffVars

(* -------------- POST /api/advisors/:id/check-suspicious ---------------- *)
\* advisor ids a request path may name; NA is a path segment that is no number
AdvisorIds == Users \cup {NA}

\* the titles of the flags of rules A, B and C, in the order the loop tries them
Titles ==
    <<"Sale created outside business hours", "Unusual high sale amount",
      "Sale edited shortly after creation">>

\* the severities of the flags of rules A, B and C
Severities == <<"MEDIUM", "HIGH", "LOW">>

\* dt.getHours() of a timestamp
GetHours(t) == (t \div 60) % 24

\* rules whose spike test has lost its comparison with the average
RuleFires_NoAverage(k, s, sum, count) ==
    CASE k = 1 -> GetHours(s.created_at) < 8 \/ GetHours(s.created_at) >= 18
      [] k = 2 -> /\ sum > 0
                  /\ s.total_amount > 50000
      [] k = 3 -> /\ s.updated_at # NULL
                  /\ s.updated_at - s.created_at >= 0
                  /\ s.updated_at - s.created_at <= 2
                  /\ s.total_amount > 50000

\* the condition of rule k on the row s of the window, the advisor average
\* being sum / count: total > avgSale * 3 is total * count > 3 * sum
RuleFires(k, s, sum, count) ==
    CASE k = 1 -> GetHours(s.created_at) < 8 \/ GetHours(s.created_at) >= 18
      [] k = 2 -> /\ sum > 0
                  /\ s.total_amount * count > 3 * sum
                  /\ s.total_amount > 50000
      [] k = 3 -> /\ s.updated_at # NULL
                  /\ s.updated_at - s.created_at >= 0
                  /\ s.updated_at - s.created_at <= 2
                  /\ s.total_amount > 50000

\* the numbers the description of a flag of rule k carries: the creation
\* time, the total and Math.round(avgSale), or the minutes between creation
\* and update
Description(k, s, sum, count) ==
    CASE k = 1 -> <<s.created_at>>
      [] k = 2 -> <<s.total_amount, (2 * sum + count) \div (2 * count)>>
      [] k = 3 -> <<s.updated_at - s.created_at>>

\* the loop visits position p = 3 * (index of the sale - 1) + rule
SaleAt(p) == ((p - 1) \div 3) + 1

RuleAt(p) == ((p - 1) % 3) + 1

\* the first position at or after p whose rule fires (0 when there is none)
NextFiring(r, p) ==
    LET S == {q \in p..(3 * Len(r.window)) :
                 RuleFires(RuleAt(q), r.window[SaleAt(q)], r.sum, r.count)}
    IN IF S = {} THEN 0 ELSE CHOOSE q \in S : \A x \in S : q <= x

\* SELECT sale_id, created_at, updated_at, total_amount FROM sales WHERE
\* created_by = $1 ORDER BY created_at DESC: the orders the rows may come in
\* (every row of the model is younger than the `days` of the request)
AdvisorSales(tbl, a) ==
    LET ids == {i \in 1..Len(tbl) : tbl[i].created_by = a}
        n == Cardinality(ids)
    IN {[k \in 1..n |-> [sale_id |-> f[k], created_at |-> tbl[f[k]].created_at,
                         updated_at |-> tbl[f[k]].updated_at,
                         total_amount |-> tbl[f[k]].total_amount]] :
           f \in {g \in [1..n -> ids] :
                     /\ \A i, j \in 1..n : i # j => g[i] # g[j]
                     /\ \A i, j \in 1..n :
                           i < j => tbl[g[i]].created_at >= tbl[g[j]].created_at}}

\* a dedupe helper that never finds the flag
flagExists_Never(tbl, advisorId, saleId, title) == FALSE

\* flagExists: SELECT 1 FROM sale_flags WHERE advisor_id = $1 AND
\* sale_id = $2 AND title = $3 LIMIT 1
flagExists(tbl, advisorId, saleId, title) ==
    \E i \in 1..Len(tbl) :
        /\ tbl[i].advisor_id = advisorId
        /\ tbl[i].sale_id = saleId
        /\ tbl[i].title = title

\* a sale_flags table without its unique index
uq_sale_flags_dedupe_Missing(tbl, advisorId, saleId, title) == FALSE

\* the unique index uq_sale_flags_dedupe on (advisor_id, sale_id, title)
\* rejects the insert of the triple
uq_sale_flags_dedupe(tbl, advisorId, saleId, title) ==
    \E i \in 1..Len(tbl) :
        /\ tbl[i].advisor_id = advisorId
        /\ tbl[i].sale_id = saleId
        /\ tbl[i].title = title

\* the for loop with locals r from position p up to its next await, or to
\* the response res.json({success: true, ..., new_flags: inserted})
ScanLoop(u, r, p) ==
    LET q == NextFiring(r, p)
    IN IF q = 0
       THEN /\ Respond(u, "200 success")
            /\ scan_reply' = [scan_reply EXCEPT ![u] =
                                 [advisorId |-> r.advisorId, new_flags |-> r.inserted]]
       ELSE /\ Goto(u, "scan_exists", [r EXCEPT !.idx = q])
            /\ UNCHANGED scan_reply

\* the request arrives: the check of the id, then the SELECT of the sales
ScanStart(u, id) ==
    /\ CanStart(u)
    /\ nreq' = nreq + 1
    /\ IF id = NA
       THEN Respond(u, "400 invalid advisor id")
       ELSE \E w \in AdvisorSales(sales, id) :
               Goto(u, "scan_avg", [NoReq EXCEPT !.advisorId = id, !.window = w])
    /\ UNCHANGED <<stock, price, is_active, sales, sale_items, sale_flags,
                   scan_reply, invoices>>
    /\ UNCHANGED staffVars

\* SELECT COALESCE(AVG(total_amount), 0) FROM sales WHERE created_by = $1,
\* then the loop up to its first flagExists
ScanAvg(u) ==
    /\ pc[u] = "scan_avg"
    /\ LET mine == [i \in 1..Len(sales) |->
                       IF sales[i].created_by = rq[u].advisorId
                       THEN sales[i].total_amount ELSE 0]
           n == Cardinality({i \in 1..Len(sales) : sales[i].created_by = rq[u].advisorId})
       IN ScanLoop(u, [rq[u] EXCEPT !.sum = SumSeq(mine), !.count = n], 1)
    /\ UNCHANGED <<stock, price, is_active, sales, sale_items, nreq, sale_flags, invoices>>
    /\ UNCHANGED staffVars

\* addFlag, first statement: if (await flagExists(saleId, title)) return
ScanExists(u) ==
    /\ pc[u] = "scan_exists"
    /\ LET q == rq[u].idx
       IN IF flagExists(sale_flags, rq[u].advisorId,
                        rq[u].window[SaleAt(q)].sale_id, Titles[RuleAt(q)])
          THEN ScanLoop(u, rq[u], q + 1)
          ELSE /\ Goto(u, "scan_insert", rq[u])
               /\ UNCHANGED scan_reply
    /\ UNCHANGED <<stock, price, is_active, sales, sale_items, nreq, sale_flags, invoices>>
    /\ UNCHANGED staffVars

\* the dedupe insert written as an upsert: on a conflict the existing row is
\* reset to OPEN
ScanInsert_Upsert(u) ==
    /\ pc[u] = "scan_insert"
    /\ LET q == rq[u].idx
           saleId == rq[u].window[SaleAt(q)].sale_id
           title == Titles[RuleAt(q)]
           row == [sale_id |-> saleId, advisor_id |-> rq[u].advisorId,
                   severity |-> Severities[RuleAt(q)], title |-> title,
                   description |-> Description(RuleAt(q), rq[u].window[SaleAt(q)],
                                               rq[u].sum, rq[u].count),
                   status |-> "OPEN", reviewed_at |-> NULL, reviewed_by |-> NULL]
       IN /\ sale_flags' =
                 IF uq_sale_flags_dedupe(sale_flags, rq[u].advisorId, saleId, title)
                 THEN [i \in 1..Len(sale_flags) |->
                          IF /\ sale_flags[i].advisor_id = rq[u].advisorId
                             /\ sale_flags[i].sale_id = saleId
                             /\ sale_flags[i].title = title
                          THEN row ELSE sale_flags[i]]
                 ELSE Append(sale_flags, row)
          /\ ScanLoop(u, [rq[u] EXCEPT !.inserted = @ + 1], q + 1)
    /\ UNCHANGED <<stock, price, is_active, sales, sale_items, nreq, invoices>>
    /\ UNCHANGED staffVars

\* addFlag, second statement: INSERT INTO sale_flags ... RETURNING flag_id and
\* inserted += 1; an error of the INSERT is thrown to the catch of the handler
ScanInsert(u) ==
    /\ pc[u] = "scan_insert"
    /\ LET q == rq[u].idx
           saleId == rq[u].window[SaleAt(q)].sale_id
           title == Titles[RuleAt(q)]
       IN IF uq_sale_flags_dedupe(sale_flags, rq[u].advisorId, saleId, title)
          THEN /\ Respond(u, "500 failed to run suspicious checks")
               /\ scan_reply' = [scan_reply EXCEPT ![u] =
                                    [advisorId |-> rq[u].advisorId, new_flags |-> NULL]]
               /\ UNCHANGED sale_flags
          ELSE /\ sale_flags' = Append(sale_flags,
                                       [sale_id |-> saleId, advisor_id |-> rq[u].advisorId,
                                        severity |-> Severities[RuleAt(q)],
                                        title |-> title,
                                        description |->
                                            Description(RuleAt(q), rq[u].window[SaleAt(q)],
                                                        rq[u].sum, rq[u].count),
                                        status |-> "OPEN", reviewed_at |-> NULL,
                                        reviewed_by |-> NULL])
               /\ ScanLoop(u, [rq[u] EXCEPT !.inserted = @ + 1], q + 1)
    /\ UNCHANGED <<stock, price, is_active, sales, sale_items, nreq, invoices>>
    /\ UNCHANGED staffVars

\* flag ids a request path of the review may name (flag_id = position)
FlagIds == {1, 2}

\* PATCH /api/advisors/flags/:flagId/review: UPDATE sale_flags SET status =
\* 'REVIEWED', reviewed_at = NOW(), reviewed_by = $1 WHERE flag_id = $2
FlagReview(u, flagId) ==
    /\ CanStart(u)
    /\ nreq' = nreq + 1
    /\ IF flagId \in 1..Len(sale_flags)
       THEN /\ sale_flags' = [sale_flags EXCEPT ![flagId] =
                                 [@ EXCEPT !.status = "REVIEWED",
                                           !.reviewed_at = CURRENT_TIMESTAMP,
                                           !.reviewed_by = u]]
            /\ Respond(u, "200 flag reviewed")
       ELSE /\ Respond(u, "404 flag not found")
            /\ UNCHANGED sale_flags
    /\ UNCHANGED <<stock, price, is_active, sales, sale_items, scan_reply, invoices>>
    /\ UNCHANGED staffVars

(* -------------------------- warehouse orders -------------------------- *)
\* authorizeRole(...roles): the token of the session carries one of the roles
authorizeRole(u, roles) == token[u].role \in roles

\* POST /api/warehouse/orders arrives: the role and the body are checked,
\* then SELECT COUNT(*) FROM warehouse_orders WHERE order_id LIKE 'PO-<year>-%'
\* and count = parseInt(..) + 1
OrderCount(u, bodyOk) ==
    /\ CanStart(u)
    /\ nreq' = nreq + 1
    /\ IF ~authorizeRole(u, {"Controller", "Director"})
       THEN Respond(u, "403 insufficient permissions")
       ELSE IF ~bodyOk THEN Respond(u, "400 missing required fields")
       ELSE Goto(u, "ord_insert",
                 [NoReq EXCEPT !.count =
                     Cardinality({id \in OrderIds : orders[id] # NoOrder}) + 1])
    /\ UNCHANGED salesVars
    /\ UNCHANGED staffVars

\* INSERT INTO warehouse_orders (order_id, ..., status, ...) VALUES ($1, ...,
\* 'Pending Approval', ...); order_id is the PRIMARY KEY
OrderInsert(u) ==
    /\ pc[u] = "ord_insert"
    /\ IF orders[rq[u].count] # NoOrder
       THEN /\ Respond(u, "500 failed to create warehouse order")
            /\ UNCHANGED orders
       ELSE /\ orders' = [orders EXCEPT ![rq[u].count] =
                             [status |-> "Pending Approval", signed_by |-> NULL,
                              signed_at |-> NULL]]
            /\ Respond(u, "201 order created")
    /\ UNCHANGED <<nreq, users, employees, clients, reports, data, token>>
    /\ UNCHANGED salesVars

\* const validStatuses = [...]
validStatuses == {"Pending Approval", "In Transit", "Arrived", "Completed", "Rejected"}

\* the status field of a body of PATCH /orders/:id/status ("undefined": none)
StatusInputs == {"undefined", "Lost", "In Transit", "Arrived", "Rejected"}

\* PATCH /api/warehouse/orders/:id/status: UPDATE warehouse_orders SET status
\* = $1, ... WHERE order_id = $
OrderStatus(u, id, st) ==
    /\ CanStart(u)
    /\ nreq' = nreq + 1
    /\ IF ~authorizeRole(u, {"Controller", "Director"})
       THEN Respond(u, "403 insufficient permissions") /\ UNCHANGED orders
       ELSE IF st = "undefined"
       THEN Respond(u, "400 status is required") /\ UNCHANGED orders
       ELSE IF st \notin validStatuses
       THEN Respond(u, "400 invalid status") /\ UNCHANGED orders
       ELSE IF orders[id] = NoOrder
       THEN Respond(u, "404 order not found") /\ UNCHANGED orders
       ELSE /\ orders' = [orders EXCEPT ![id] = [@ EXCEPT !.status = st]]
            /\ Respond(u, "200 order status updated")
    /\ UNCHANGED <<users, employees, clients, reports, data, token>>
    /\ UNCHANGED salesVars

\* PATCH /api/warehouse/orders/:id/sign arrives: SELECT employee_id FROM
\* employees WHERE user_id = $1
SignEmployee(u, id) ==
    /\ CanStart(u)
    /\ nreq' = nreq + 1
    /\ IF ~authorizeRole(u, {"Controller", "Director"})
       THEN Respond(u, "403 insufficient permissions")
       ELSE LET mine == {e \in employees : e.user_id = token[u].userId}
            IN IF mine = {} THEN Respond(u, "404 employee record not found")
               ELSE \E e \in mine :
                       Goto(u, "ord_sign", [NoReq EXCEPT !.order_id = id,
                                                         !.employeeId = e.employee_id])
    /\ UNCHANGED salesVars
    /\ UNCHANGED staffVars

\* a WHERE clause of the signing UPDATE that has lost its status condition
SignMatches_AnyStatus(tbl, id) == tbl[id] # NoOrder

\* the WHERE clause of the signing UPDATE: order_id = $2 AND status = 'Arrived'
SignMatches(tbl, id) == tbl[id] # NoOrder /\ tbl[id].status = "Arrived"

\* UPDATE warehouse_orders SET status = 'Completed', signed_by = $1,
\* signed_at = CURRENT_TIMESTAMP WHERE order_id = $2 AND status = 'Arrived'
SignUpdate(u) ==
    /\ pc[u] = "ord_sign"
    /\ IF SignMatches(orders, rq[u].order_id)
       THEN /\ orders' = [orders EXCEPT ![rq[u].order_id] =
                             [status |-> "Completed", signed_by |-> rq[u].employeeId,
                              signed_at |-> CURRENT_TIMESTAMP]]
            /\ Respond(u, "200 order signed and completed")
       ELSE /\ UNCHANGED orders
            /\ Respond(u, "404 order not found or not in Arrived status")
    /\ UNCHANGED <<nreq, users, employees, clients, reports, data, token>>
    /\ UNCHANGED salesVars

\* DELETE /api/warehouse/orders/:id arrives: SELECT status FROM
\* warehouse_orders WHERE order_id = $1 and the check of the status
DeleteCheck(u, id) ==
    /\ CanStart(u)
    /\ nreq' = nreq + 1
    /\ IF ~authorizeRole(u, {"Director"})
       THEN Respond(u, "403 insufficient permissions")
       ELSE IF orders[id] = NoOrder THEN Respond(u, "404 order not found")
       ELSE IF orders[id].status \notin {"Pending Approval", "Rejected"}
       THEN Respond(u, "400 cannot delete orders in transit, arrived or completed")
       ELSE Goto(u, "ord_delete", [NoReq EXCEPT !.order_id = id])
    /\ UNCHANGED salesVars
    /\ UNCHANGED staffVars

\* DELETE FROM warehouse_orders WHERE order_id = $1 RETURNING *
DeleteOrder(u) ==
    /\ pc[u] = "ord_delete"
    /\ orders' = [orders EXCEPT ![rq[u].order_id] = NoOrder]
    /\ Respond(u, "200 order deleted")
    /\ UNCHANGED <<nreq, users, employees, clients, reports, data, token>>
    /\ UNCHANGED salesVars

(* ------------------------------- reports ------------------------------ *)
\* mustScopeToMine: role === "Controller" || req.query?.mine === "true"
mustScopeToMine(role, mine) == role = "Controller" \/ mine = "true"

\* getEmployeeForTokenUser: SELECT employee_id ... FROM employees WHERE
\* user_id = $1 LIMIT 1 (the employee ids the row may carry)
getEmployeeForTokenUser(u) ==
    {e.employee_id : e \in {x \in employees : x.user_id = token[u].userId}}

\* SELECT * FROM reports WHERE 1=1 [AND author_id = $][AND is_read = $]: the
\* ids of the rows (author = NULL: not scoped; the query string has no
\* priority, department, category, search, limit or offset)
SelectReports(author, isRead) ==
    {i \in 1..Len(reports) :
        /\ author # NULL => reports[i].author_id = author
        /\ isRead \in {"true", "false"} => reports[i].is_read = (isRead = "true")}

\* the response of GET /api/reports: data: result.rows
RespondReports(u, rows) ==
    /\ Respond(u, "200 reports")
    /\ data' = [data EXCEPT ![u] = rows]

\* GET /api/reports arrives: when the request must be scoped the employee of
\* the caller is read first, otherwise the reports are selected at once
ReportsList(u, mine, isRead) ==
    /\ CanStart(u)
    /\ nreq' = nreq + 1
    /\ IF mustScopeToMine(token[u].role, mine)
       THEN /\ IF getEmployeeForTokenUser(u) = {}
               THEN Respond(u, "400 no employee record linked to this user")
               ELSE \E e \in getEmployeeForTokenUser(u) :
                       Goto(u, "rep_list", [NoReq EXCEPT !.employeeId = e, !.isRead = isRead])
            /\ UNCHANGED data
       ELSE RespondReports(u, SelectReports(NULL, isRead))
    /\ UNCHANGED <<users, employees, orders, clients, reports, token>>
    /\ UNCHANGED salesVars

\* the scoped SELECT of GET /api/reports
ReportsListScoped(u) ==
    /\ pc[u] = "rep_list"
    /\ RespondReports(u, SelectReports(rq[u].employeeId, rq[u].isRead))
    /\ UNCHANGED <<nreq, users, employees, orders, clients, reports, token>>
    /\ UNCHANGED salesVars

\* GET /api/reports/:id arrives: a Director gets the report by its id, any
\* other caller has the employee read first
ReportGet(u, id) ==
    /\ CanStart(u)
    /\ nreq' = nreq + 1
    /\ IF token[u].role = "Director"
       THEN IF id \in 1..Len(reports)
            THEN /\ Respond(u, "200 report") /\ data' = [data EXCEPT ![u] = {id}]
            ELSE /\ Respond(u, "404 report not found") /\ data' = [data EXCEPT ![u] = {}]
       ELSE /\ IF getEmployeeForTokenUser(u) = {}
               THEN Respond(u, "400 no employee record linked to this user")
               ELSE \E e \in getEmployeeForTokenUser(u) :
                       Goto(u, "rep_get", [NoReq EXCEPT !.employeeId = e, !.report_id = id])
            /\ UNCHANGED data
    /\ UNCHANGED <<users, employees, orders, clients, reports, token>>
    /\ UNCHANGED salesVars

\* SELECT * FROM reports WHERE report_id = $1 AND author_id = $2
ReportGetScoped(u) ==
    /\ pc[u] = "rep_get"
    /\ IF /\ rq[u].report_id \in 1..Len(reports)
          /\ reports[rq[u].report_id].author_id = rq[u].employeeId
       THEN /\ Respond(u, "200 report") /\ data' = [data EXCEPT ![u] = {rq[u].report_id}]
       ELSE /\ Respond(u, "404 report not found") /\ data' = [data EXCEPT ![u] = {}]
    /\ UNCHANGED <<nreq, users, employees, orders, clients, reports, token>>
    /\ UNCHANGED salesVars

(* ------------------------------ employees ----------------------------- *)
\* the username and email fields of a body of POST /api/employees (ABSENT: no
\* such field; the other required fields are present and the password is
\* long enough); usernames and emails are numbered
EmployeeBodies == [username : {ABSENT, 3, 4}, email : {ABSENT, 13}]

\* the place of a users row that has been deleted
NoUser == [username |-> NULL, email |-> NULL, role |-> "none"]

\* POST /api/employees arrives: the role, the required fields, then SELECT
\* user_id FROM users WHERE username = $1
EmployeeUsername(u, body) ==
    /\ CanStart(u)
    /\ nreq' = nreq + 1
    /\ IF ~authorizeRole(u, {"Controller", "Director"})
       THEN Respond(u, "403 insufficient permissions")
       ELSE IF body.username = ABSENT THEN Respond(u, "400 missing required fields")
       ELSE IF \E i \in 1..Len(users) : users[i].username = body.username
       THEN Respond(u, "409 username already exists")
       ELSE Goto(u, IF body.email # ABSENT THEN "emp_email" ELSE "emp_count",
                 [NoReq EXCEPT !.username = body.username, !.email = body.email])
    /\ UNCHANGED salesVars
    /\ UNCHANGED staffVars

\* if (email): SELECT user_id FROM users WHERE email = $1
EmployeeEmail(u) ==
    /\ pc[u] = "emp_email"
    /\ IF \E i \in 1..Len(users) : users[i].email = rq[u].email
       THEN Respond(u, "409 email already exists")
       ELSE Goto(u, "emp_count", rq[u])
    /\ UNCHANGED nreq
    /\ UNCHANGED salesVars
    /\ UNCHANGED staffVars

\* the transaction begins: SELECT COUNT(*) FROM employees, count =
\* parseInt(..) + 1 (the number of EMP<count>), and the email generated from
\* the username when the body has none
EmployeeCount(u) ==
    /\ pc[u] = "emp_count"
    /\ Goto(u, "emp_insert",
            [rq[u] EXCEPT !.count = Cardinality(employees) + 1,
                          !.email = IF @ = ABSENT THEN 100 + rq[u].username ELSE @])
    /\ UNCHANGED nreq
    /\ UNCHANGED salesVars
    /\ UNCHANGED staffVars

\* INSERT INTO users, INSERT INTO employees and the commit of the
\* transaction: both rows become visible together; a violation of
\* users_username_key, users_email_key, the PRIMARY KEY of employees or
\* employees.email UNIQUE rolls both back
EmployeeInsert(u) ==
    /\ pc[u] = "emp_insert"
    /\ IF \E i \in 1..Len(users) : users[i].username = rq[u].username
       THEN Respond(u, "409 username already exists") /\ UNCHANGED <<users, employees>>
       ELSE IF \E i \in 1..Len(users) : users[i].email = rq[u].email
       THEN Respond(u, "409 email already exists") /\ UNCHANGED <<users, employees>>
       ELSE IF \E e \in employees : e.employee_id = rq[u].count \/ e.email = rq[u].email
       THEN /\ Respond(u, "409 a record with this information already exists")
            /\ UNCHANGED <<users, employees>>
       ELSE /\ users' = Append(users, [username |-> rq[u].username,
                                       email |-> rq[u].email, role |-> "Agent"])
            /\ employees' = employees \cup
                                {[employee_id |-> rq[u].count, user_id |-> Len(users) + 1,
                                  email |-> rq[u].email]}
            /\ Respond(u, "201 employee created")
    /\ UNCHANGED <<nreq, orders, clients, reports, data, token>>
    /\ UNCHANGED salesVars

\* DELETE /api/employees/:id arrives: the role, then in a transaction SELECT
\* user_id FROM employees WHERE employee_id = $1
EmployeeDeleteSelect(u, id) ==
    /\ CanStart(u)
    /\ nreq' = nreq + 1
    /\ IF ~authorizeRole(u, {"Director"})
       THEN Respond(u, "403 insufficient permissions")
       ELSE LET found == {e \in employees : e.employee_id = id}
            IN IF found = {} THEN Respond(u, "404 employee not found")
               ELSE \E e \in found :
                       Goto(u, "emp_delete", [NoReq EXCEPT !.employeeId = id,
                                                           !.userId = e.user_id])
    /\ UNCHANGED salesVars
    /\ UNCHANGED staffVars

\* DELETE FROM employees WHERE employee_id = $1, DELETE FROM users WHERE
\* user_id = $1 if (userId), and the commit
EmployeeDelete(u) ==
    /\ pc[u] = "emp_delete"
    /\ employees' = {e \in employees : e.employee_id # rq[u].employeeId}
    /\ users' = IF rq[u].userId # NULL /\ rq[u].userId \in 1..Len(users)
                THEN [users EXCEPT ![rq[u].userId] = NoUser]
                ELSE users
    /\ Respond(u, "200 employee permanently deleted")
    /\ UNCHANGED <<nreq, orders, clients, reports, data, token>>
    /\ UNCHANGED salesVars

(* ------------------------------- clients ------------------------------ *)
\* the phone field of a body (ABSENT: no phone); phones are numbered
PhoneInputs == {ABSENT, 7, 8}

\* the client ids a request path names; no row has id 3
ClientIds == {1, 3}

\* POST /api/clients arrives: the required fields, then SELECT client_id FROM
\* clients WHERE phone = $1 (the other required fields are present)
ClientCheck(u, phone) ==
    /\ CanStart(u)
    /\ nreq' = nreq + 1
    /\ IF phone = ABSENT THEN Respond(u, "400 client name, phone and type are required")
       ELSE IF \E i \in 1..Len(clients) : clients[i].phone = phone
       THEN Respond(u, "409 client with this phone number already exists")
       ELSE Goto(u, "cli_insert", [NoReq EXCEPT !.phone = phone])
    /\ UNCHANGED salesVars
    /\ UNCHANGED staffVars

\* INSERT INTO clients (client_name, phone, ...) VALUES (...): the table has
\* an index on phone and no UNIQUE constraint
ClientInsert(u) ==
    /\ pc[u] = "cli_insert"
    /\ clients' = Append(clients, [phone |-> rq[u].phone, created_by |-> token[u].userId])
    /\ Respond(u, "201 client created")
    /\ UNCHANGED <<nreq, users, employees, orders, reports, data, token>>
    /\ UNCHANGED salesVars

\* PUT /api/clients/:id: UPDATE clients SET phone = COALESCE($2, phone), ...
\* WHERE client_id = $7
ClientPut(u, id, phone) ==
    /\ CanStart(u)
    /\ nreq' = nreq + 1
    /\ IF id \in 1..Len(clients)
       THEN /\ clients' = [clients EXCEPT ![id].phone = IF phone = ABSENT THEN @ ELSE phone]
            /\ Respond(u, "200 client updated")
       ELSE /\ UNCHANGED clients
            /\ Respond(u, "404 client not found")
    /\ UNCHANGED <<users, employees, orders, reports, data, token>>
    /\ UNCHANGED salesVars

(* ------------------------------ invoices ------------------------------ *)
\* invoice ids a request path may name; no row has id 2
InvoiceIds == {1, 2}

\* the amount of the invoice the requests are about
InvoiceAmount == 10

\* amounts a body of POST /:id/pay may carry (ABSENT: no amount)
PayAmounts == {ABSENT, 4}

\* the fields paid_amount and status of a body of PUT /api/invoices/:id
InvoicePutBodies ==
    [paid_amount : {ABSENT, 4, 12}, status : {"undefined", "Paid", "Pending"}]

\* POST /api/invoices/:id/pay arrives: SELECT * FROM invoices WHERE
\* invoice_id = $1, then the new paid amount and status from the row read
\* (amount and paid_amount of the row taken as numbers)
PayStart(u, id, amount) ==
    /\ CanStart(u)
    /\ nreq' = nreq + 1
    /\ IF id \notin 1..Len(invoices)
       THEN Respond(u, "404 invoice not found")
       ELSE LET invoice == invoices[id]
                payAmount == IF amount = ABSENT \/ amount = 0 THEN invoice.amount ELSE amount
                newPaidAmount == invoice.paid_amount + payAmount
                newStatus == IF newPaidAmount >= invoice.amount THEN "Paid" ELSE "Pending"
            IN Goto(u, "pay_update",
                    [NoReq EXCEPT !.invoice_id = id, !.newPaidAmount = newPaidAmount,
                                  !.newStatus = newStatus])
    /\ UNCHANGED <<stock, price, is_active, sales, sale_items, sale_flags,
                   scan_reply, invoices>>
    /\ UNCHANGED staffVars

\* UPDATE invoices SET paid_amount = $1, status = $2, paid_date = CASE WHEN
\* $2 = 'Paid' THEN CURRENT_DATE ELSE paid_date END WHERE invoice_id = $3
PayUpdate(u) ==
    /\ pc[u] = "pay_update"
    /\ invoices' = [invoices EXCEPT ![rq[u].invoice_id] =
                       [@ EXCEPT !.paid_amount = rq[u].newPaidAmount,
                                 !.status = rq[u].newStatus,
                                 !.paid_date = IF rq[u].newStatus = "Paid"
                                               THEN CURRENT_TIMESTAMP ELSE @]]
    /\ Respond(u, "200 payment recorded")
    /\ UNCHANGED <<stock, price, is_active, sales, sale_items, nreq, sale_flags, scan_reply>>
    /\ UNCHANGED staffVars

\* UPDATE invoices SET paid_amount = COALESCE($1, paid_amount), status =
\* COALESCE($2, status), paid_date = $4 WHERE invoice_id = $5 RETURNING *
InvoiceUpdate(u, id, updatePaidAmount, updateStatus, paidDate) ==
    IF id \notin 1..Len(invoices)
    THEN /\ Respond(u, "404 invoice not found")
         /\ UNCHANGED invoices
    ELSE /\ invoices' = [invoices EXCEPT ![id] =
                            [@ EXCEPT !.paid_amount = IF updatePaidAmount = ABSENT THEN @
                                                      ELSE updatePaidAmount,
                                      !.status = IF updateStatus = "undefined" THEN @
                                                 ELSE updateStatus,
                                      !.paid_date = paidDate]]
         /\ Respond(u, "200 invoice updated")

\* PUT /api/invoices/:id arrives: with status 'Paid' the SELECT of the
\* amount, which replaces the paid_amount of the body; otherwise the UPDATE
PutInvoice(u, id, body) ==
    /\ CanStart(u)
    /\ nreq' = nreq + 1
    /\ IF body.status = "Paid"
       THEN /\ Goto(u, "inv_update",
                    IF id \in 1..Len(invoices)
                    THEN [NoReq EXCEPT !.invoice_id = id,
                                       !.updatePaidAmount = invoices[id].amount,
                                       !.updateStatus = body.status,
                                       !.paidDate = CURRENT_TIMESTAMP]
                    ELSE [NoReq EXCEPT !.invoice_id = id,
                                       !.updatePaidAmount = body.paid_amount,
                                       !.updateStatus = body.status])
            /\ UNCHANGED invoices
       ELSE InvoiceUpdate(u, id, body.paid_amount, body.status, NULL)
    /\ UNCHANGED <<stock, price, is_active, sales, sale_items, sale_flags, scan_reply>>
    /\ UNCHANGED staffVars

\* the UPDATE of a PUT /api/invoices/:id with status 'Paid'
PutInvoiceUpdate(u) ==
    /\ pc[u] = "inv_update"
    /\ InvoiceUpdate(u, rq[u].invoice_id, rq[u].updatePaidAmount, rq[u].updateStatus,
                     rq[u].paidDate)
    /\ UNCHANGED <<stock, price, is_active, sales, sale_items, nreq, sale_flags, scan_reply>>
    /\ UNCHANGED staffVars

(* --------------------------- specifications --------------------------- *)
\* the steps of POST /from-recommendations
RecNext(u) ==
    \/ \E body \in RecBodies : RecStart(u, body)
    \/ RecLoad(u)
    \/ RecDeduct(u)
    \/ RecInsertSale(u)
    \/ RecInsertItem(u)

\* the steps of POST /api/sales-transactions
CreateNext(u) ==
    \/ \E body \in CreateBodies : CreateStart(u, body)
    \/ CreateInsertSale(u)
    \/ CreateInsertItem(u)

\* the steps of PATCH /:id/validate and PATCH /:id/complete
LifecycleNext(u) ==
    \/ \E id \in SaleIds : ValidateCheck(u, id)
    \/ ValidateUpdate(u)
    \/ \E id \in SaleIds : Complete(u, id)

\* the stock operations of the article routes
ArticleNext(u) ==
    \/ \E id \in ItemArticles, amount \in StockInputs, operation \in Operations :
          PatchStock(u, id, amount, operation)
    \/ \E id \in ItemArticles, body \in PutBodies : PutArticle(u, id, body)

\* the steps of POST /api/advisors/:id/check-suspicious
ScanNext(u) ==
    \/ \E id \in AdvisorIds : ScanStart(u, id)
    \/ ScanAvg(u)
    \/ ScanExists(u)
    \/ ScanInsert(u)

\* the calls of add_sale_item
ItemNext(u) ==
    \E id \in SaleIds, a \in ItemArticles, q \in Quantities : add_sale_item(u, id, a, q)

\* the steps of POST /api/invoices/:id/pay and PUT /api/invoices/:id
InvoiceNext(u) ==
    \/ \E id \in InvoiceIds, amount \in PayAmounts : PayStart(u, id, amount)
    \/ PayUpdate(u)
    \/ \E id \in InvoiceIds, body \in InvoicePutBodies : PutInvoice(u, id, body)
    \/ PutInvoiceUpdate(u)

\* the two sale-creation endpoints
NextCreation == \E u \in Users : RecNext(u) \/ CreateNext(u)

SpecCreation == Init /\ [][NextCreation]_vars

\* bodies of POST /api/sales-transactions that carry no items
BareBodies == {b \in CreateBodies : b.clientOk /\ b.items = <<>>}

\* bodies of POST /from-recommendations that carry one item
OneItemBodies == {b \in RecBodies : b.clientOk /\ Len(b.items) = 1}

\* the life of a sale: created by either endpoint (from the bodies above,
\* the item lists having no part in it), then validated and completed
NextSales ==
    \E u \in Users :
        \/ \E body \in BareBodies : CreateStart(u, body)
        \/ CreateInsertSale(u)
        \/ \E body \in OneItemBodies : RecStart(u, body)
        \/ RecLoad(u)
        \/ RecDeduct(u)
        \/ RecInsertSale(u)
        \/ RecInsertItem(u)
        \/ LifecycleNext(u)

SpecSales == Init /\ [][NextSales]_vars

\* sale creation from recommendations and the article stock operations
NextStock == \E u \in Users : RecNext(u) \/ ArticleNext(u)

SpecStock == Init /\ [][NextStock]_vars

\* the body of a from-recommendations request for 3 units of article a1
RaceBody == [clientOk |-> TRUE, items |-> <<[article_id |-> "a1", quantity |-> 3]>>]

\* sessions that only send RaceBody, against the initial stock of 5 of a1
NextRace ==
    \E u \in Users :
        \/ RecStart(u, RaceBody)
        \/ RecLoad(u)
        \/ RecDeduct(u)
        \/ RecInsertSale(u)
        \/ RecInsertItem(u)

SpecRace == Init /\ [][NextRace]_vars

\* a sales table for the scans: four sales of advisor 1, the first one large
\* (created at minute c, last updated at minute e) and three small ones, one
\* of them created at 20:00; one large sale of advisor 2 created at 00:20
ScanTable(c, e) ==
    LET by == <<1, 1, 1, 1, 2>>
        total == <<60000, 1000, 1000, 1000, 60000>>
        created == <<c, 1200, 660, 720, 20>>
        updated == <<e, 1230, 690, 750, 50>>
    IN [i \in 1..5 |->
           [SaleRow(LPad(ToText(i), PadWidth), total[i], "Draft", by[i])
               EXCEPT !.created_at = created[i], !.updated_at = updated[i]]]

\* the first sale was created at 00:30 or at 10:00, and last updated one
\* minute or ten minutes later
ScanTables == {ScanTable(c, c + d) : c \in {30, 600}, d \in {1, 10}}

InitScan ==
    /\ stock = InitStock
    /\ price = [a \in Articles |-> 2]
    /\ is_active = [a \in Articles |-> TRUE]
    /\ sales \in ScanTables
    /\ sale_items = <<>>
    /\ pc = [u \in Users |-> "idle"]
    /\ rq = [u \in Users |-> NoReq]
    /\ result = [u \in Users |-> "none"]
    /\ nreq = 0
    /\ sale_flags = <<>>
    /\ scan_reply = [u \in Users |-> NoReply]
    /\ invoices = <<>>
    /\ users = InitUsers
    /\ employees = InitEmployees
    /\ orders = NoOrders
    /\ clients = <<>>
    /\ reports = <<>>
    /\ data = [u \in Users |-> {}]
    /\ token = InitToken

\* anomaly scans, possibly concurrent, over a set of sales that does not change
NextScan == \E u \in Users : ScanNext(u)

SpecScan == InitScan /\ [][NextScan]_vars

\* scans of advisor 1 and reviews of the flags they raise
NextFlags ==
    \E u \in Users :
        \/ ScanStart(u, 1)
        \/ ScanAvg(u)
        \/ ScanExists(u)
        \/ ScanInsert(u)
        \/ \E f \in FlagIds : FlagReview(u, f)

SpecFlags == InitScan /\ [][NextFlags]_vars

\* POST /api/sales-transactions with the client fields and nothing else,
\* whatever the number of rows of sales: SELECT generate_sale_reference()
CreateStartBare(u) ==
    /\ CanStart(u)
    /\ nreq' = nreq + 1
    /\ Goto(u, "cre_sale", [NoReq EXCEPT !.status = "Draft",
                                         !.reference = generate_sale_reference(sales)])
    /\ UNCHANGED salesVars
    /\ UNCHANGED staffVars

\* the numbers of sales the year may already have
RefCounts == {0, 1, 2, 9, 10, 99, 100, 998, 999, 1000, 1001}

\* a sales table whose references carry the sequence numbers 1..n
RefTable(n) ==
    [i \in 1..n |->
        SaleRow(IF Len(ToText(i)) <= PadWidth THEN LPad(ToText(i), PadWidth) ELSE ToText(i),
                0, "Draft", 1)]

InitRef ==
    /\ stock = InitStock
    /\ price = [a \in Articles |-> 2]
    /\ is_active = [a \in Articles |-> TRUE]
    /\ sales \in {RefTable(n) : n \in RefCounts}
    /\ sale_items = <<>>
    /\ pc = [u \in Users |-> "idle"]
    /\ rq = [u \in Users |-> NoReq]
    /\ result = [u \in Users |-> "none"]
    /\ nreq = 0
    /\ sale_flags = <<>>
    /\ scan_reply = [u \in Users |-> NoReply]
    /\ invoices = <<>>
    /\ users = InitUsers
    /\ employees = InitEmployees
    /\ orders = NoOrders
    /\ clients = <<>>
    /\ reports = <<>>
    /\ data = [u \in Users |-> {}]
    /\ token = InitToken

\* sales created one after the other or concurrently in a year that already
\* has n of them
NextRef ==
    \E u \in Users :
        \/ CreateStartBare(u)
        \/ CreateInsertSale(u)

SpecRef == InitRef /\ [][NextRef]_vars

\* warehouse orders created, moved from status to status, signed and deleted
\* (the request paths name the order ids 1 and 2)
NextOrders ==
    \E u \in Users :
        \/ \E bodyOk \in BOOLEAN : OrderCount(u, bodyOk)
        \/ OrderInsert(u)
        \/ \E id \in {1, 2}, st \in StatusInputs : OrderStatus(u, id, st)
        \/ \E id \in {1, 2} : SignEmployee(u, id)
        \/ SignUpdate(u)
        \/ \E id \in {1, 2} : DeleteCheck(u, id)
        \/ DeleteOrder(u)

SpecOrders == Init /\ [][NextOrders]_vars

\* the two sessions hold tokens of any roles; three reports, one of
\* employee 1 and two of employee 2
InitReports ==
    /\ stock = InitStock
    /\ price = [a \in Articles |-> 2]
    /\ is_active = [a \in Articles |-> TRUE]
    /\ sales = <<>>
    /\ sale_items = <<>>
    /\ pc = [u \in Users |-> "idle"]
    /\ rq = [u \in Users |-> NoReq]
    /\ result = [u \in Users |-> "none"]
    /\ nreq = 0
    /\ sale_flags = <<>>
    /\ scan_reply = [u \in Users |-> NoReply]
    /\ invoices = <<>>
    /\ token \in {[u \in Users |-> [userId |-> u, role |-> r[u]]] : r \in [Users -> Roles]}
    /\ users = [u \in Users |-> [InitUsers[u] EXCEPT !.role = token[u].role]]
    /\ employees = InitEmployees
    /\ orders = NoOrders
    /\ clients = <<>>
    /\ reports = <<[author_id |-> 1, is_read |-> TRUE], [author_id |-> 2, is_read |-> TRUE],
                   [author_id |-> 2, is_read |-> FALSE]>>
    /\ data = [u \in Users |-> {}]

\* reports listed and read (the request paths name the report ids 1, 2 and
\* 4, and no report has id 4)
NextReports ==
    \E u \in Users :
        \/ \E mine \in {"undefined", "true"}, isRead \in {"undefined", "false"} :
               ReportsList(u, mine, isRead)
        \/ ReportsListScoped(u)
        \/ \E id \in {1, 2, 4} : ReportGet(u, id)
        \/ ReportGetScoped(u)

SpecReports == InitReports /\ [][NextReports]_vars

\* employees created and deleted (the DELETEs name EMP0003 and EMP0004)
NextEmployees ==
    \E u \in Users :
        \/ \E body \in EmployeeBodies : EmployeeUsername(u, body)
        \/ EmployeeEmail(u)
        \/ EmployeeCount(u)
        \/ EmployeeInsert(u)
        \/ \E id \in {3, 4} : EmployeeDeleteSelect(u, id)
        \/ EmployeeDelete(u)

SpecEmployees == Init /\ [][NextEmployees]_vars

\* clients created and updated
NextClients ==
    \E u \in Users :
        \/ \E phone \in PhoneInputs : ClientCheck(u, phone)
        \/ ClientInsert(u)
        \/ \E id \in ClientIds, phone \in PhoneInputs : ClientPut(u, id, phone)

SpecClients == Init /\ [][NextClients]_vars

\* bodies of POST /api/sales-transactions with no items and no status field
DraftBodies == {b \in BareBodies : b.status = "Draft"}

\* sales created as Draft, validated and completed, and calls of add_sale_item
NextItems ==
    \E u \in Users :
        \/ \E body \in DraftBodies : CreateStart(u, body)
        \/ CreateInsertSale(u)
        \/ LifecycleNext(u)
        \/ ItemNext(u)

SpecItems == Init /\ [][NextItems]_vars

\* a catalog in which any of the articles may have been deactivated
InitCatalog ==
    /\ stock = InitStock
    /\ price = [a \in Articles |-> 2]
    /\ is_active \in [Articles -> BOOLEAN]
    /\ sales = <<>>
    /\ sale_items = <<>>
    /\ pc = [u \in Users |-> "idle"]
    /\ rq = [u \in Users |-> NoReq]
    /\ result = [u \in Users |-> "none"]
    /\ nreq = 0
    /\ sale_flags = <<>>
    /\ scan_reply = [u \in Users |-> NoReply]
    /\ invoices = <<>>
    /\ users = InitUsers
    /\ employees = InitEmployees
    /\ orders = NoOrders
    /\ clients = <<>>
    /\ reports = <<>>
    /\ data = [u \in Users |-> {}]
    /\ token = InitToken

\* sale creation from recommendations and add_sale_item over such a catalog
NextCatalog ==
    \E u \in Users :
        \/ \E body \in OneItemBodies : RecStart(u, body)
        \/ RecLoad(u)
        \/ RecDeduct(u)
        \/ RecInsertSale(u)
        \/ RecInsertItem(u)
        \/ ItemNext(u)

SpecCatalog == InitCatalog /\ [][NextCatalog]_vars

\* bodies of PUT /api/articles/:id that change the price and not the stock
PriceBodies == {b \in PutBodies : b.price # ABSENT /\ b.stock = ABSENT}

\* bodies of POST /api/sales-transactions with at most one item and no
\* status field
SmallBodies == {b \in CreateBodies : b.clientOk /\ b.status = "Draft" /\ Len(b.items) <= 1}

\* sale creation by POST /api/sales-transactions while catalog prices change
NextPrice ==
    \E u \in Users :
        \/ \E body \in SmallBodies : CreateStart(u, body)
        \/ CreateInsertSale(u)
        \/ CreateInsertItem(u)
        \/ \E id \in Articles, body \in PriceBodies : PutArticle(u, id, body)

SpecPrice == Init /\ [][NextPrice]_vars

\* one invoice, issued and not yet paid (paid_amount DEFAULT 0, status
\* DEFAULT 'Pending')
InitInvoices ==
    /\ stock = InitStock
    /\ price = [a \in Articles |-> 2]
    /\ is_active = [a \in Articles |-> TRUE]
    /\ sales = <<>>
    /\ sale_items = <<>>
    /\ pc = [u \in Users |-> "idle"]
    /\ rq = [u \in Users |-> NoReq]
    /\ result = [u \in Users |-> "none"]
    /\ nreq = 0
    /\ sale_flags = <<>>
    /\ scan_reply = [u \in Users |-> NoReply]
    /\ invoices = <<[amount |-> InvoiceAmount, paid_amount |-> 0,
                     status |-> "Pending", paid_date |-> NULL]>>
    /\ users = InitUsers
    /\ employees = InitEmployees
    /\ orders = NoOrders
    /\ clients = <<>>
    /\ reports = <<>>
    /\ data = [u \in Users |-> {}]
    /\ token = InitToken

\* payments and updates of the invoice
NextInvoices == \E u \in Users : InvoiceNext(u)

SpecInvoices == InitInvoices /\ [][NextInvoices]_vars

\* every handler, any session
Next ==
    \/ \E u \in Users :
          \/ RecNext(u) \/ CreateNext(u) \/ LifecycleNext(u) \/ ArticleNext(u)
          \/ ScanNext(u) \/ ItemNext(u) \/ InvoiceNext(u)
    \/ NextFlags \/ NextRef \/ NextOrders \/ NextClients \/ NextEmployees \/ NextReports

Spec == Init /\ [][Next]_vars

(* ------------------------------- claims ------------------------------- *)
\* C1: for every sale, after every database statement of the two creation
\* endpoints (and after a request that failed part-way), total_amount equals
\* the sum of total_price over the sale_items rows of that sale.
C1_TotalMatchesItems ==
    \A s \in 1..Len(sales) : sales[s].total_amount = ItemsTotal(sale_items, s)

\* C2: every article with tracked (non-NULL) stock has stock >= 0.
C2_StockNeverNegative ==
    \A a \in Articles : stock[a] # NULL => stock[a] >= 0

\* C3: when each of the two sessions has sent one from-recommendations
\* request for 3 units of a1 (stock 5) and both requests are over, exactly
\* one was created, the other was rejected for insufficient stock, and the
\* stock of a1 is 2.
C3_OneSuccessOneRejection ==
    (nreq = 2 /\ \A u \in Users : pc[u] = "idle" /\ result[u] # "none")
        => /\ \E u, v \in Users :
                /\ result[u] = "201 created"
                /\ result[v] = "400 insufficient stock"
           /\ stock["a1"] = 2

\* C4: a from-recommendations request rejected for insufficient stock leaves
\* the stock of every article and the sales as they were before it; stated
\* for the first request of a behaviour, whose "before" is the initial state.
C4_RejectionChangesNothing ==
    \A u \in Users :
        (nreq = 1 /\ pc[u] = "idle" /\ result[u] = "400 insufficient stock")
            => (stock = InitStock /\ sales = <<>> /\ sale_items = <<>>)

\* C5: a sale is Completed only by passing through Validated: whenever a
\* sale is Completed after a step, it existed before the step and was
\* Validated or already Completed.
C5_CompletedOnlyViaValidated ==
    [][\A s \in 1..Len(sales') :
          sales'[s].status = "Completed"
              => (s <= Len(sales) /\ sales[s].status \in {"Validated", "Completed"})]_vars

\* C6: every sale has status Draft immediately after the statement that
\* created it, whatever the request body contains.
C6_CreatedAsDraft ==
    [][Len(sales') > Len(sales) => sales'[Len(sales')].status = "Draft"]_vars

\* C7: validate is legal only from Draft.  A validate request that finds the
\* sale missing or in a status other than Draft is rejected and changes no
\* row of sales; one that finds it Draft goes on to its UPDATE, which sets
\* the status of that sale to Validated and stamps validated_at and
\* validated_by with the acting user, leaving every other sale alone.
C7_ValidateOnlyFromDraft ==
    [][\A u \in Users :
          /\ \A id \in SaleIds :
                ValidateCheck(u, id) =>
                    /\ sales' = sales
                    /\ IF id \in 1..Len(sales) /\ sales[id].status = "Draft"
                       THEN pc'[u] = "val_update" /\ rq'[u].sale_id = id
                       ELSE /\ pc'[u] = "idle"
                            /\ result'[u] \in {"404 sale not found",
                                               "400 only draft sales can be validated"}
          /\ (pc[u] = "val_update" /\ pc'[u] # "val_update") =>
                /\ result'[u] = "200 validated"
                /\ sales'[rq[u].sale_id].status = "Validated"
                /\ sales'[rq[u].sale_id].validated_at = CURRENT_TIMESTAMP
                /\ sales'[rq[u].sale_id].validated_by = u
                /\ \A s \in 1..Len(sales) : s # rq[u].sale_id => sales'[s] = sales[s]]_vars

\* C7 witness: a validate request was rejected because the sale was not
\* Draft, on a sale an earlier validate request stamped.
C7_Witness ==
    \E u \in Users, s \in 1..Len(sales) :
        /\ result[u] = "400 only draft sales can be validated"
        /\ sales[s].status = "Validated"
        /\ sales[s].validated_by \in Users
        /\ sales[s].validated_at = CURRENT_TIMESTAMP

\* C8: Completed and Cancelled are terminal: a sale in one of them keeps its
\* status in every step.
C8_TerminalStatusNeverChanges ==
    [][\A s \in 1..Len(sales) :
          sales[s].status \in {"Completed", "Cancelled"}
              => sales'[s].status = sales[s].status]_vars

\* C9: the references of all persisted sales are pairwise distinct.
C9_ReferencesDistinct ==
    \A i, j \in 1..Len(sales) : i # j => sales[i].reference # sales[j].reference

\* C9 witness: two sales are persisted and a request that raced for a
\* reference had its insert rejected by the unique constraint.
C9_Witness ==
    /\ Len(sales) = 2
    /\ \E u \in Users : result[u] = "409 already exists"

\* C10: a reference conflict between concurrent sale creations is retried
\* internally and never reaches a caller as an error.
C10_ConflictNeverSurfaces ==
    \A u \in Users : result[u] # "409 already exists"

\* C12: a scan of a session for an advisor, sent after the previous scan of
\* that session for the same advisor was answered with success, inserts no
\* flag in any of its steps and is answered with success and new_flags = 0.
C12_SecondScanInsertsNothing ==
    [][\A u \in Users :
          (/\ pc[u] \in {"scan_avg", "scan_exists", "scan_insert"}
           /\ scan_reply[u].advisorId = rq[u].advisorId
           /\ scan_reply[u].new_flags # NULL
           /\ <<pc[u], rq[u]>> # <<pc'[u], rq'[u]>>)
              => /\ sale_flags' = sale_flags
                 /\ pc'[u] = "idle" =>
                       /\ result'[u] = "200 success"
                       /\ scan_reply'[u].new_flags = 0]_vars

\* C12 witness: a session scanned advisor 1 twice; the first scan inserted
\* flags, the second was answered with new_flags = 0.
C12_Witness ==
    \E u \in Users :
        /\ nreq = 2
        /\ pc[u] = "idle"
        /\ result[u] = "200 success"
        /\ scan_reply[u] = [advisorId |-> 1, new_flags |-> 0]
        /\ Len(sale_flags) >= 2
        /\ \A v \in Users \ {u} : result[v] = "none" /\ pc[v] = "idle"

C14_RejectedInsertIsIgnored ==
    \A u \in Users : result[u] # "500 failed to run suspicious checks"

\* the quantity of article a in the persisted sale items
SoldQuantity(a) ==
    SumSeq([i \in 1..Len(sale_items) |->
              IF sale_items[i].article_id = a THEN sale_items[i].quantity ELSE 0])

\* C11: creation from recommendations is all-or-nothing.  When the two
\* sessions have each sent one request for 3 units of a1 and one of them
\* failed on the reference conflict, after its stock decrement, nothing of
\* the failed request is persisted: the stock of a1 is short of its initial
\* value by the quantity of the persisted items only, and every persisted
\* sale has its item.
C11_FailedRequestPersistsNothing ==
    (/\ nreq = 2
     /\ \A u \in Users : pc[u] = "idle"
     /\ \E u \in Users : result[u] = "409 already exists")
        => /\ stock["a1"] = InitStock["a1"] - SoldQuantity("a1")
           /\ Len(sale_items) = Len(sales)

\* C15: no step adds an item to a sale that is Validated or Completed, or
\* changes its total.
C15_NonDraftSaleNotEditable ==
    [][\A s \in 1..Len(sales) :
          sales[s].status \in {"Validated", "Completed"}
              => /\ ItemsTotal(sale_items', s) = ItemsTotal(sale_items, s)
                 /\ \A i \in (Len(sale_items) + 1)..Len(sale_items') :
                       sale_items'[i].sale_id # s
                 /\ sales'[s].total_amount = sales[s].total_amount]_vars

\* C17: every sale item is stored with the price its article has in the
\* catalog when the row is inserted, and total_price = quantity * unit_price.
C17_UnitPriceIsCatalogPrice ==
    [][\A i \in (Len(sale_items) + 1)..Len(sale_items') :
          /\ sale_items'[i].unit_price = price[sale_items'[i].article_id]
          /\ sale_items'[i].total_price
                = sale_items'[i].quantity * sale_items'[i].unit_price]_vars

\* C18: an item on an inactive article is rejected: no sale item references
\* an inactive article and the stock of an inactive article is never touched.
C18_InactiveArticleRejected ==
    \A a \in Articles :
        ~is_active[a] => /\ stock[a] = InitStock[a]
                         /\ SoldQuantity(a) = 0

\* C19: when no request is in flight, the stock of every tracked article is
\* its initial stock less the quantities of the persisted sale items on it.
C19_StockAccountsForItems ==
    (\A u \in Users : pc[u] = "idle")
        => \A a \in Articles :
              stock[a] # NULL => InitStock[a] = stock[a] + SoldQuantity(a)

\* C20: for every invoice, paid_amount <= amount.
C20_PaidAtMostAmount ==
    \A i \in 1..Len(invoices) : invoices[i].paid_amount <= invoices[i].amount

\* C21: a step of an anomaly scan (the session moves within, into or out of
\* the handler) keeps every sale_flags row that existed
\* before it, with the same severity, title, description, status, reviewed_at
\* and reviewed_by, and the rows it adds have status OPEN
C21_ScanKeepsExistingFlags ==
    [][(\E u \in Users :
           \/ pc[u] \in {"scan_avg", "scan_exists", "scan_insert"} /\ (pc'[u] # pc[u] \/ rq'[u] # rq[u])
           \/ pc[u] = "idle" /\ pc'[u] \in {"scan_avg", "scan_exists", "scan_insert"}
           \/ pc[u] = "idle" /\ nreq' # nreq /\ result'[u] = "400 invalid advisor id")
       => /\ Len(sale_flags') >= Len(sale_flags)
          /\ \A i \in 1..Len(sale_flags) : sale_flags'[i] = sale_flags[i]
          /\ \A i \in (Len(sale_flags) + 1)..Len(sale_flags') :
                sale_flags'[i].status = "OPEN"]_vars

\* a scan that has inserted a flag is about to insert another one into a
\* table that holds a reviewed flag
C21_Witness ==
    \E u \in Users :
        /\ pc[u] = "scan_insert"
        /\ rq[u].inserted >= 1
        /\ \E i \in 1..Len(sale_flags) : sale_flags[i].status = "REVIEWED"

\* C22: a step of a validate or complete request, accepted or rejected, leaves
\* the stock of every article, every sale_items row and the total_amount of
\* every sale as they were
C22_LifecycleTouchesNoStockItemsTotal ==
    [][(\E u \in Users :
           \/ pc[u] = "val_update" /\ pc'[u] = "idle"
           \/ pc[u] = "idle" /\ pc'[u] = "val_update"
           \/ /\ pc[u] = "idle"
              /\ nreq' # nreq
              /\ result'[u] \in {"404 sale not found",
                                 "400 only draft sales can be validated",
                                 "200 completed", "400 sale not found or not validated"})
       => /\ stock' = stock
          /\ sale_items' = sale_items
          /\ Len(sales') = Len(sales)
          /\ \A i \in 1..Len(sales) : sales'[i].total_amount = sales[i].total_amount]_vars

\* a sale with an item and a positive total has been validated and completed,
\* and a further validate or complete request has been rejected
C22_Witness ==
    /\ \E i \in 1..Len(sales) :
          /\ sales[i].status = "Completed"
          /\ sales[i].total_amount > 0
          /\ \E k \in 1..Len(sale_items) : sale_items[k].sale_id = i
    /\ \E u \in Users :
          result[u] \in {"400 only draft sales can be validated",
                         "400 sale not found or not validated"}

\* C23: when the sales carry the sequence numbers 1..n, the reference that
\* generate_sale_reference returns to a request has the sequence number n + 1
\* and differs from every reference of the table, also when n + 1 has more
\* digits than the padding
C23_ReferenceIsNextNumber ==
    [][\A u \in Users :
          (/\ pc[u] = "idle"
           /\ pc'[u] = "cre_sale"
           /\ \A i \in 1..Len(sales) : ParseInt(sales[i].reference) = i)
          => /\ ParseInt(rq'[u].reference) = Len(sales) + 1
             /\ ~ReferenceTaken(sales, rq'[u].reference)]_vars

C25_SignedOnlyFromArrived ==
    [][/\ \A id \in OrderIds :
             (/\ orders'[id] # NoOrder
              /\ \/ orders'[id].signed_by # orders[id].signed_by
                 \/ orders'[id].signed_at # orders[id].signed_at)
                => /\ orders[id].status = "Arrived"
                   /\ orders'[id].status = "Completed"
                   /\ orders'[id].signed_by # NULL
                   /\ orders'[id].signed_at # NULL
       /\ \A u \in Users :
             (pc[u] = "ord_sign" /\ pc'[u] = "idle")
                => IF orders[rq[u].order_id].status = "Arrived"
                   THEN /\ orders'[rq[u].order_id] =
                              [status |-> "Completed", signed_by |-> rq[u].employeeId,
                               signed_at |-> CURRENT_TIMESTAMP]
                        /\ \A id \in OrderIds \ {rq[u].order_id} : orders'[id] = orders[id]
                   ELSE orders' = orders]_vars

\* an Arrived order has been signed, and the signing of an order that is not
\* Arrived has been refused
C25_Witness ==
    /\ \E id \in OrderIds : orders[id].status = "Completed" /\ orders[id].signed_by # NULL
    /\ \E u \in Users : result[u] = "404 order not found or not in Arrived status"

\* C26: a warehouse order is removed only while its status is Pending
\* Approval or Rejected, however DELETE /orders/:id interleaves with
\* PATCH /orders/:id/status
C26_DeletedOnlyPendingOrRejected ==
    [][\A id \in OrderIds :
          (orders[id] # NoOrder /\ orders'[id] = NoOrder)
             => orders[id].status \in {"Pending Approval", "Rejected"}]_vars

\* C28: the order_id that POST /api/warehouse/orders generates is not the
\* order_id of an existing order
C28_GeneratedOrderIdUnused ==
    [][\A u \in Users :
          (pc[u] = "idle" /\ pc'[u] = "ord_insert")
             => orders[rq'[u].count] = NoOrder]_vars

\* C27: the reports in the data of the last response to a caller who is not
\* a Director (GET /api/reports with or without mine=true, GET
\* /api/reports/:id) all have the employee of the caller as their author
C27_NonDirectorReadsOwnReportsOnly ==
    \A u \in Users :
        token[u].role # "Director"
           => \A i \in data[u] :
                 \E e \in employees :
                    e.user_id = token[u].userId /\ e.employee_id = reports[i].author_id

\* C29: the employee_id that POST /api/employees generates is not the id of
\* an existing employee, and every users row has its employees row
C29_GeneratedEmployeeIdUnused ==
    [][/\ \A u \in Users :
             (pc[u] = "emp_count" /\ pc'[u] = "emp_insert")
                => \A e \in employees : e.employee_id # rq'[u].count
       /\ \A i \in 1..Len(users') :
             users'[i] # NoUser => \E e \in employees' : e.user_id = i]_vars

\* C30: the phone numbers of the clients are pairwise distinct
C30_PhonesDistinct ==
    \A i, j \in 1..Len(clients) : i # j => clients[i].phone # clients[j].phone

====
